---- MODULE Spec2Model ----
(***************************************************************************)
(* Code gates (singlestore-labs/codegate).                                 *)
(*                                                                         *)
(* The sources hold two versions of the package:                           *)
(*   - the live-scan version, src/codegate.go lines 1-107, whose           *)
(*     DisabledGates() reads the environment on every call;                *)
(*   - the cached version, src/codegate_test.go lines 86-220, whose        *)
(*     DisabledGates() fills the package variable disabledGates once and   *)
(*     returns it until resetDisabledGates() clears it, and whose New      *)
(*     also looks at the deprecated prefix envVarPrefix2.                  *)
(*                                                                         *)
(* Strings are sequences of one-character strings, so that the regular     *)
(* expression, strings.Cut, strings.HasPrefix and strings.TrimPrefix are   *)
(* computed character by character.                                       *)
(***************************************************************************)
EXTENDS Integers, Sequences, FiniteSets, Bags, TLC

(***************************************************************************)
(* Bounds of the model.                                                    *)
(***************************************************************************)
NumProcs == 2

MaxNameLen == 2

MaxRegistered == 1

(***************************************************************************)
(* Program constants.                                                      *)
(***************************************************************************)
nameMaxLength == 100

EnvVarPrefix == <<"D","I","S","A","B","L","E","_","C","O","D","E","_">>

envVarPrefix2 == <<"D","I","S","A","B","L","E","_","S","2","C","O","D","E","_">>

(***************************************************************************)
(* validName = regexp.MustCompile("^[A-Za-z][A-Za-z0-9_]*$"), run as the   *)
(* automaton of the expression: state "start" expects [A-Za-z], state      *)
(* "tail" loops on [A-Za-z0-9_], any other character leads to "fail"; $ is *)
(* the end of the text (Go, no m flag), so the text matches when the       *)
(* automaton has read all of it and is in "tail".  validNameRun(s, lo, hi) *)
(* is the automaton's move over s[lo..hi] as a function of the state it    *)
(* starts in, composed from the moves over the two halves.                 *)
(***************************************************************************)
UpperAZ == {"A","B","C","D","E","F","G","H","I","J","K","L","M",
            "N","O","P","Q","R","S","T","U","V","W","X","Y","Z"}

LowerAZ == {"a","b","c","d","e","f","g","h","i","j","k","l","m",
            "n","o","p","q","r","s","t","u","v","w","x","y","z"}

Digit09 == {"0","1","2","3","4","5","6","7","8","9"}

validNameStep(st, c) ==
    IF st = "start" /\ c \in UpperAZ \cup LowerAZ THEN "tail"
    ELSE IF st = "tail" /\ c \in UpperAZ \cup LowerAZ \cup Digit09 \cup {"_"}
         THEN "tail"
    ELSE "fail"

validNameStates == {"start", "tail", "fail"}

RECURSIVE validNameRun(_, _, _)
validNameRun(s, lo, hi) ==
    IF lo > hi THEN [st \in validNameStates |-> st]
    ELSE IF lo = hi THEN [st \in validNameStates |-> validNameStep(st, s[lo])]
    ELSE LET mid == (lo + hi) \div 2
             left == validNameRun(s, lo, mid)
             right == validNameRun(s, mid + 1, hi)
         IN  [st \in validNameStates |-> right[left[st]]]

validName(s) == validNameRun(s, 1, Len(s))["start"] = "tail"

NameAcceptedOffByOne(s) == ~(~validName(s) \/ Len(s) >= nameMaxLength)

\* the condition of the first if of New, negated: the name is accepted
NameAccepted(s) == ~(~validName(s) \/ Len(s) > nameMaxLength)

(***************************************************************************)
(* The process environment: a function from the names of the variables     *)
(* that are set to their values.                                           *)
(***************************************************************************)
EnvsOver(K, V) == UNION {[D -> V] : D \in SUBSET K}

\* os.LookupEnv's second result
LookupEnvNonEmpty(e, key) == key \in DOMAIN e /\ e[key] # <<>>

LookupEnv(e, key) == key \in DOMAIN e

\* os.Setenv
Setenv(e, key, value) ==
    [k \in DOMAIN e \cup {key} |-> IF k = key THEN value ELSE e[k]]

\* os.Unsetenv
Unsetenv(e, key) == [k \in DOMAIN e \ {key} |-> e[k]]

\* the orders in which os.Environ may list the variables (unspecified)
RECURSIVE Orders(_)
Orders(S) ==
    IF S = {} THEN {<<>>}
    ELSE UNION {{<<k>> \o rest : rest \in Orders(S \ {k})} : k \in S}

\* os.Environ: one "name=value" string per variable
Environ(e, order) ==
    [i \in 1..Len(order) |-> order[i] \o <<"=">> \o e[order[i]]]

(***************************************************************************)
(* package strings                                                         *)
(***************************************************************************)
\* the first result of strings.Cut(s, "=")
CutBefore(s) ==
    LET at == {i \in 1..Len(s) : s[i] = "="}
    IN  IF at = {} THEN s
        ELSE SubSeq(s, 1, (CHOOSE i \in at : \A j \in at : i <= j) - 1)

HasPrefixAlways(s, prefix) == TRUE

HasPrefix(s, prefix) ==
    Len(s) >= Len(prefix) /\ SubSeq(s, 1, Len(prefix)) = prefix

TrimPrefixNothing(s, prefix) == s

TrimPrefix(s, prefix) ==
    IF Len(s) >= Len(prefix) /\ SubSeq(s, 1, Len(prefix)) = prefix
    THEN SubSeq(s, Len(prefix) + 1, Len(s))
    ELSE s

(***************************************************************************)
(* The loop of DisabledGates (live-scan version) over os.Environ().        *)
(***************************************************************************)
RECURSIVE scanEnviron(_, _)
scanEnviron(environ, list) ==
    IF environ = <<>> THEN list
    ELSE LET envName == CutBefore(Head(environ))
         IN  scanEnviron(Tail(environ),
                 IF HasPrefix(envName, EnvVarPrefix)
                 THEN Append(list, TrimPrefix(envName, EnvVarPrefix))
                 ELSE list)

(***************************************************************************)
(* Gate                                                                    *)
(***************************************************************************)
Gate(n, e) == [name |-> n, enabled |-> e]

Name(gate) == gate.name

(***************************************************************************)
(* State.                                                                  *)
(*   env            the process environment                                *)
(*   usedNames      the package's set of registered names                  *)
(*   gateLock       the package's mutex: TRUE when locked                  *)
(*   disabledGates  the cached list (cached version); Nil when nil         *)
(*   pc, name, disabled, environ   per caller: the position in New,        *)
(*                  DisabledGates or resetDisabledGates, the argument of   *)
(*                  New, the local holding LookupEnv's result, and the     *)
(*                  part of os.Environ() the loop has not visited yet;     *)
(*                  the locals hold their zero values outside their call   *)
(*   gates          the Gate values New has returned (a bag)               *)
(*   ret            what the call that completed in the last step gave     *)
(*                  its caller; NoRet when the last step completed no call *)
(*   lastQuery      the result of the latest DisabledGates call of the     *)
(*                  cached version since the latest reset; Nil when none   *)
(***************************************************************************)
VARIABLES env, usedNames, gateLock, disabledGates,
          pc, name, disabled, environ, gates, ret, lastQuery

vars == <<env, usedNames, gateLock, disabledGates,
          pc, name, disabled, environ, gates, ret, lastQuery>>

Procs == 1..NumProcs

\* a []string: the nil slice, and the slice that holds the list l
Nil == [nil |-> TRUE, list |-> <<>>]

Slice(l) == [nil |-> FALSE, list |-> l]

NoRet == [kind |-> "none"]

RetGate(p, g) == [kind |-> "gate", proc |-> p, gate |-> g]

RetPanic(p, n, why) == [kind |-> "panic", proc |-> p, name |-> n, why |-> why]

RetList(p, l) == [kind |-> "list", proc |-> p, list |-> l]

RetVoid(p) == [kind |-> "void", proc |-> p]

EnabledRecheck(gate) == ~LookupEnv(env, EnvVarPrefix \o gate.name)

Enabled(gate) == gate.enabled

InitWith(envs) ==
    /\ env \in envs
    /\ usedNames = {}
    /\ gateLock = FALSE
    /\ disabledGates = Nil
    /\ pc = [p \in Procs |-> "idle"]
    /\ name = [p \in Procs |-> <<>>]
    /\ disabled = [p \in Procs |-> FALSE]
    /\ environ = [p \in Procs |-> <<>>]
    /\ gates = EmptyBag
    /\ ret = NoRet
    /\ lastQuery = Nil

(***************************************************************************)
(* The environment changes (os.Setenv, os.Unsetenv by any goroutine).      *)
(***************************************************************************)
SetenvStep(key, value) ==
    /\ env' = Setenv(env, key, value)
    /\ ret' = NoRet
    /\ UNCHANGED <<usedNames, gateLock, disabledGates, pc, name, disabled,
                   environ, gates, lastQuery>>

UnsetenvStep(key) ==
    /\ key \in DOMAIN env
    /\ env' = Unsetenv(env, key)
    /\ ret' = NoRet
    /\ UNCHANGED <<usedNames, gateLock, disabledGates, pc, name, disabled,
                   environ, gates, lastQuery>>

(***************************************************************************)
(* New(name), one action per access to shared state.                       *)
(***************************************************************************)
\* the call and the validity check: panic, or go on to gateLock.Lock()
NewValidateRegisterFirst(p, n) ==
    /\ pc[p] = "idle"
    /\ usedNames' = usedNames \cup {n}
    /\ IF ~NameAccepted(n)
       THEN /\ ret' = RetPanic(p, n, "invalid")
            /\ UNCHANGED <<pc, name>>
       ELSE /\ pc' = [pc EXCEPT ![p] = "new_lock"]
            /\ name' = [name EXCEPT ![p] = n]
            /\ ret' = NoRet
    /\ UNCHANGED <<env, gateLock, disabledGates, disabled, environ,
                   gates, lastQuery>>

NewValidate(p, n) ==
    /\ pc[p] = "idle"
    /\ IF ~NameAccepted(n)
       THEN /\ ret' = RetPanic(p, n, "invalid")
            /\ UNCHANGED <<pc, name>>
       ELSE /\ pc' = [pc EXCEPT ![p] = "new_lock"]
            /\ name' = [name EXCEPT ![p] = n]
            /\ ret' = NoRet
    /\ UNCHANGED <<env, usedNames, gateLock, disabledGates, disabled,
                   environ, gates, lastQuery>>

\* gateLock.Lock() left out: the caller goes on whatever the mutex's state
NewLockMissing(p) ==
    /\ pc[p] = "new_lock"
    /\ gateLock' = TRUE
    /\ pc' = [pc EXCEPT ![p] = "new_check"]
    /\ ret' = NoRet
    /\ UNCHANGED <<env, usedNames, disabledGates, name, disabled, environ,
                   gates, lastQuery>>

\* gateLock.Lock()
NewLock(p) ==
    /\ pc[p] = "new_lock"
    /\ gateLock = FALSE
    /\ gateLock' = TRUE
    /\ pc' = [pc EXCEPT ![p] = "new_check"]
    /\ ret' = NoRet
    /\ UNCHANGED <<env, usedNames, disabledGates, name, disabled, environ,
                   gates, lastQuery>>

\* if _, ok := usedNames[name]; ok { panic(...) }
NewCheck(p) ==
    /\ pc[p] = "new_check"
    /\ pc' = [pc EXCEPT ![p] = IF name[p] \in usedNames
                                THEN "new_panic" ELSE "new_insert"]
    /\ ret' = NoRet
    /\ UNCHANGED <<env, usedNames, gateLock, disabledGates, name, disabled,
                   environ, gates, lastQuery>>

\* a New whose Unlock is not deferred: the panic leaves the mutex locked
NewPanicNoUnlock(p) ==
    /\ pc[p] = "new_panic"
    /\ pc' = [pc EXCEPT ![p] = "idle"]
    /\ ret' = RetPanic(p, name[p], "duplicate")
    /\ name' = [name EXCEPT ![p] = <<>>]
    /\ UNCHANGED <<env, usedNames, gateLock, disabledGates, disabled, environ,
                   gates, lastQuery>>

\* the panic unwinds: the deferred gateLock.Unlock() runs, the caller
\* gets the panic
NewPanicUnlock(p) ==
    /\ pc[p] = "new_panic"
    /\ gateLock' = FALSE
    /\ pc' = [pc EXCEPT ![p] = "idle"]
    /\ ret' = RetPanic(p, name[p], "duplicate")
    /\ name' = [name EXCEPT ![p] = <<>>]
    /\ UNCHANGED <<env, usedNames, disabledGates, disabled, environ,
                   gates, lastQuery>>

NewInsertForgotten(p) ==
    /\ pc[p] = "new_insert"
    /\ pc' = [pc EXCEPT ![p] = "new_lookup"]
    /\ ret' = NoRet
    /\ UNCHANGED <<env, usedNames, gateLock, disabledGates, name, disabled,
                   environ, gates, lastQuery>>

\* an insert that replaces the map
NewInsertReplace(p) ==
    /\ pc[p] = "new_insert"
    /\ usedNames' = {name[p]}
    /\ pc' = [pc EXCEPT ![p] = "new_lookup"]
    /\ ret' = NoRet
    /\ UNCHANGED <<env, gateLock, disabledGates, name, disabled, environ,
                   gates, lastQuery>>

\* usedNames[name] = struct{}{}
NewInsert(p) ==
    /\ pc[p] = "new_insert"
    /\ usedNames' = usedNames \cup {name[p]}
    /\ pc' = [pc EXCEPT ![p] = "new_lookup"]
    /\ ret' = NoRet
    /\ UNCHANGED <<env, gateLock, disabledGates, name, disabled, environ,
                   gates, lastQuery>>

\* _, ok := os.LookupEnv(EnvVarPrefix + name)
NewLookup(p) ==
    /\ pc[p] = "new_lookup"
    /\ disabled' = [disabled EXCEPT ![p] = LookupEnv(env, EnvVarPrefix \o name[p])]
    /\ pc' = [pc EXCEPT ![p] = "new_return"]
    /\ ret' = NoRet
    /\ UNCHANGED <<env, usedNames, gateLock, disabledGates, name, environ,
                   gates, lastQuery>>

\* return Gate{name: name, enabled: !ok}, then the deferred gateLock.Unlock()
NewReturn(p) ==
    /\ pc[p] = "new_return"
    /\ gateLock' = FALSE
    /\ pc' = [pc EXCEPT ![p] = "idle"]
    /\ gates' = gates (+) SetToBag({Gate(name[p], ~disabled[p])})
    /\ ret' = RetGate(p, Gate(name[p], ~disabled[p]))
    /\ name' = [name EXCEPT ![p] = <<>>]
    /\ disabled' = [disabled EXCEPT ![p] = FALSE]
    /\ UNCHANGED <<env, usedNames, disabledGates, environ, lastQuery>>

\* a DisabledGates that keeps its first result
DisabledGatesMemo(p) ==
    /\ pc[p] = "idle"
    /\ IF disabledGates = Nil
       THEN \E order \in Orders(DOMAIN env) :
               /\ disabledGates' = Slice(scanEnviron(Environ(env, order), <<>>))
               /\ ret' = RetList(p, disabledGates'.list)
       ELSE /\ ret' = RetList(p, disabledGates.list)
            /\ UNCHANGED disabledGates
    /\ UNCHANGED <<env, usedNames, gateLock, pc, name, disabled, environ,
                   gates, lastQuery>>

(***************************************************************************)
(* DisabledGates(), live-scan version: one call of os.Environ(), the only  *)
(* access to shared state, then the loop over the local copy.              *)
(***************************************************************************)
DisabledGates(p) ==
    /\ pc[p] = "idle"
    /\ \E order \in Orders(DOMAIN env) :
           ret' = RetList(p, scanEnviron(Environ(env, order), <<>>))
    /\ UNCHANGED <<env, usedNames, gateLock, disabledGates, pc, name,
                   disabled, environ, gates, lastQuery>>

(***************************************************************************)
(* The live-scan version under concurrent callers and a changing           *)
(* environment.                                                            *)
(***************************************************************************)
Bar == <<"B","a","r">>

Bar2 == <<"B","a","r","2">>

NOISE == <<"N","O","I","S","E">>

DISABLED_CODE == <<"D","I","S","A","B","L","E","D","_","C","O","D","E">>

\* names the callers pass to New: two valid ones and an invalid one
MainNames == {Bar, Bar2, <<"A","$">>}

\* the two gates' variables, and one that shares only a part of the prefix
MainKeys == {EnvVarPrefix \o Bar, EnvVarPrefix \o Bar2, DISABLED_CODE}

\* values of the variables: the empty string, and one holding a "="
EnvValues == {<<>>, <<"L","=","1">>}

Init == InitWith({<<>>})

NewSteps(p) ==
    \/ NewLock(p)
    \/ NewCheck(p)
    \/ NewPanicUnlock(p)
    \/ NewInsert(p)
    \/ NewLookup(p)
    \/ NewReturn(p)

Next ==
    \/ \E p \in Procs, n \in MainNames : NewValidate(p, n)
    \/ \E p \in Procs : NewSteps(p)
    \/ \E p \in Procs : DisabledGates(p)
    \/ \E k \in MainKeys, v \in EnvValues : SetenvStep(k, v)
    \/ \E k \in MainKeys : UnsetenvStep(k)

Spec == Init /\ [][Next]_vars

(***************************************************************************)
(* One caller passing every short string, and the long names of            *)
(* TestGateNames, to New.                                                  *)
(***************************************************************************)
\* the caller of the sequential runs
Solo == {p \in Procs : \A q \in Procs : p <= q}

\* an upper-case letter, a lower-case letter, a digit, the underbar, and two
\* characters outside the pattern
NameChars == {"A", "z", "7", "_", "$", "-"}

Repeat(c, n) == [i \in 1..n |-> c]

\* strings.Repeat("Z", 100), strings.Repeat("A", 101), and a string of 100
\* characters that ends outside the pattern
LongNames ==
    {Repeat("Z", nameMaxLength), Repeat("A", nameMaxLength + 1),
     Append(Repeat("Z", nameMaxLength - 1), "$")}

NameInputs == UNION {[1..k -> NameChars] : k \in 0..MaxNameLen} \cup LongNames

NextNames ==
    \/ \E p \in Solo, n \in NameInputs :
          /\ n \in usedNames \/ Cardinality(usedNames) < MaxRegistered
          /\ NewValidate(p, n)
    \/ \E p \in Solo : NewSteps(p)
    \/ SetenvStep(EnvVarPrefix \o <<"A">>, <<>>)
    \/ UnsetenvStep(EnvVarPrefix \o <<"A">>)

SpecNames == Init /\ [][NextNames]_vars

(***************************************************************************)
(* A process started with some environment, in which one caller makes the  *)
(* four gates of TestDisableMultipleGates and scans; the environment does  *)
(* not change.                                                             *)
(***************************************************************************)
Baz(d) == <<"B","a","z",d>>

BazNames == {Baz("1"), Baz("2"), Baz("3"), Baz("4")}

\* the variables of three of the gates and two that do not carry the prefix
StartupKeys ==
    {EnvVarPrefix \o Baz("1"), EnvVarPrefix \o Baz("2"), EnvVarPrefix \o Baz("3"),
     NOISE, DISABLED_CODE}

InitStartup == InitWith(EnvsOver(StartupKeys, {<<"L","O","U","D">>}))

NextStartup ==
    \/ \E p \in Solo, n \in BazNames : NewValidate(p, n)
    \/ \E p \in Solo : NewSteps(p)
    \/ \E p \in Solo : DisabledGates(p)

SpecStartup == InitStartup /\ [][NextStartup]_vars

(***************************************************************************)
(* The cached version (src/codegate_test.go lines 86-220).  New differs    *)
(* from the live-scan version in the lookup only: the deprecated prefix is *)
(* looked up when the primary variable is absent.                          *)
(***************************************************************************)
\* a New that looks at the primary prefix only
NewLookupPrimaryOnly(p) ==
    /\ pc[p] = "new_lookup"
    /\ disabled' = [disabled EXCEPT ![p] = LookupEnv(env, EnvVarPrefix \o name[p])]
    /\ pc' = [pc EXCEPT ![p] = "new_return"]
    /\ ret' = NoRet
    /\ UNCHANGED <<env, usedNames, gateLock, disabledGates, name, environ,
                   gates, lastQuery>>

\* _, disabled := os.LookupEnv(EnvVarPrefix + name)
NewLookupPrimary(p) ==
    /\ pc[p] = "new_lookup"
    /\ disabled' = [disabled EXCEPT ![p] = LookupEnv(env, EnvVarPrefix \o name[p])]
    /\ pc' = [pc EXCEPT ![p] = IF LookupEnv(env, EnvVarPrefix \o name[p])
                                THEN "new_return" ELSE "new_lookup2"]
    /\ ret' = NoRet
    /\ UNCHANGED <<env, usedNames, gateLock, disabledGates, name, environ,
                   gates, lastQuery>>

\* if !disabled { _, disabled = os.LookupEnv(envVarPrefix2 + name) }
NewLookupLegacy(p) ==
    /\ pc[p] = "new_lookup2"
    /\ disabled' = [disabled EXCEPT ![p] = LookupEnv(env, envVarPrefix2 \o name[p])]
    /\ pc' = [pc EXCEPT ![p] = "new_return"]
    /\ ret' = NoRet
    /\ UNCHANGED <<env, usedNames, gateLock, disabledGates, name, environ,
                   gates, lastQuery>>

\* gateLock.Lock() left out of DisabledGates
CachedLockMissing(p) ==
    /\ pc[p] = "idle"
    /\ gateLock' = TRUE
    /\ pc' = [pc EXCEPT ![p] = "dg_check"]
    /\ ret' = NoRet
    /\ UNCHANGED <<env, usedNames, disabledGates, name, disabled, environ,
                   gates, lastQuery>>

\* DisabledGates(): gateLock.Lock()
CachedLock(p) ==
    /\ pc[p] = "idle"
    /\ gateLock = FALSE
    /\ gateLock' = TRUE
    /\ pc' = [pc EXCEPT ![p] = "dg_check"]
    /\ ret' = NoRet
    /\ UNCHANGED <<env, usedNames, disabledGates, name, disabled, environ,
                   gates, lastQuery>>

\* a DisabledGates that scans on every call
CachedCheckAlways(p) ==
    /\ pc[p] = "dg_check"
    /\ pc' = [pc EXCEPT ![p] = "dg_alloc"]
    /\ ret' = NoRet
    /\ UNCHANGED <<env, usedNames, gateLock, disabledGates, name, disabled,
                   environ, gates, lastQuery>>

\* if disabledGates == nil
CachedCheck(p) ==
    /\ pc[p] = "dg_check"
    /\ pc' = [pc EXCEPT ![p] = IF disabledGates = Nil THEN "dg_alloc"
                                                     ELSE "dg_return"]
    /\ ret' = NoRet
    /\ UNCHANGED <<env, usedNames, gateLock, disabledGates, name, disabled,
                   environ, gates, lastQuery>>

\* disabledGates = []string{}
CachedAlloc(p) ==
    /\ pc[p] = "dg_alloc"
    /\ disabledGates' = Slice(<<>>)
    /\ pc' = [pc EXCEPT ![p] = "dg_environ"]
    /\ ret' = NoRet
    /\ UNCHANGED <<env, usedNames, gateLock, name, disabled, environ, gates,
                   lastQuery>>

\* os.Environ(), over which the loop ranges
CachedEnviron(p) ==
    /\ pc[p] = "dg_environ"
    /\ \E order \in Orders(DOMAIN env) :
           environ' = [environ EXCEPT ![p] = Environ(env, order)]
    /\ pc' = [pc EXCEPT ![p] = "dg_loop"]
    /\ ret' = NoRet
    /\ UNCHANGED <<env, usedNames, gateLock, disabledGates, name, disabled,
                   gates, lastQuery>>

\* a loop that lists the names of registered gates only
CachedLoopRegisteredOnly(p) ==
    /\ pc[p] = "dg_loop"
    /\ IF environ[p] = <<>>
       THEN /\ pc' = [pc EXCEPT ![p] = "dg_return"]
            /\ UNCHANGED <<disabledGates, environ>>
       ELSE LET envName == CutBefore(Head(environ[p]))
            IN  /\ disabledGates' =
                      IF /\ HasPrefix(envName, EnvVarPrefix)
                         /\ TrimPrefix(envName, EnvVarPrefix) \in usedNames
                      THEN Slice(Append(disabledGates.list,
                                        TrimPrefix(envName, EnvVarPrefix)))
                      ELSE IF /\ HasPrefix(envName, envVarPrefix2)
                              /\ TrimPrefix(envName, envVarPrefix2) \in usedNames
                      THEN Slice(Append(disabledGates.list,
                                        TrimPrefix(envName, envVarPrefix2)))
                      ELSE disabledGates
                /\ environ' = [environ EXCEPT ![p] = Tail(environ[p])]
                /\ UNCHANGED pc
    /\ ret' = NoRet
    /\ UNCHANGED <<env, usedNames, gateLock, name, disabled, gates, lastQuery>>

\* one turn of the loop, or its end
CachedLoop(p) ==
    /\ pc[p] = "dg_loop"
    /\ IF environ[p] = <<>>
       THEN /\ pc' = [pc EXCEPT ![p] = "dg_return"]
            /\ UNCHANGED <<disabledGates, environ>>
       ELSE LET envName == CutBefore(Head(environ[p]))
            IN  /\ disabledGates' =
                      IF HasPrefix(envName, EnvVarPrefix)
                      THEN Slice(Append(disabledGates.list,
                                        TrimPrefix(envName, EnvVarPrefix)))
                      ELSE IF HasPrefix(envName, envVarPrefix2)
                      THEN Slice(Append(disabledGates.list,
                                        TrimPrefix(envName, envVarPrefix2)))
                      ELSE disabledGates
                /\ environ' = [environ EXCEPT ![p] = Tail(environ[p])]
                /\ UNCHANGED pc
    /\ ret' = NoRet
    /\ UNCHANGED <<env, usedNames, gateLock, name, disabled, gates, lastQuery>>

\* return disabledGates, then the deferred gateLock.Unlock()
CachedReturn(p) ==
    /\ pc[p] = "dg_return"
    /\ gateLock' = FALSE
    /\ pc' = [pc EXCEPT ![p] = "idle"]
    /\ ret' = RetList(p, disabledGates.list)
    /\ lastQuery' = disabledGates
    /\ UNCHANGED <<env, usedNames, disabledGates, name, disabled, environ,
                   gates>>

\* resetDisabledGates(): gateLock.Lock()
ResetLock(p) ==
    /\ pc[p] = "idle"
    /\ gateLock = FALSE
    /\ gateLock' = TRUE
    /\ pc' = [pc EXCEPT ![p] = "reset_clear"]
    /\ ret' = NoRet
    /\ UNCHANGED <<env, usedNames, disabledGates, name, disabled, environ,
                   gates, lastQuery>>

\* disabledGates = nil, then the deferred gateLock.Unlock()
ResetClear(p) ==
    /\ pc[p] = "reset_clear"
    /\ disabledGates' = Nil
    /\ gateLock' = FALSE
    /\ pc' = [pc EXCEPT ![p] = "idle"]
    /\ ret' = RetVoid(p)
    /\ lastQuery' = Nil
    /\ UNCHANGED <<env, usedNames, name, disabled, environ, gates>>

(***************************************************************************)
(* The cached version driven by one caller, as in                          *)
(* TestRefreshDisabledGates: the caller sets and unsets variables between  *)
(* its calls.                                                              *)
(***************************************************************************)
Foo == <<"F","o","o">>

CachedNames == {Foo, Bar}

\* Foo's variable under either prefix, and one without a prefix
CachedKeys == {EnvVarPrefix \o Foo, envVarPrefix2 \o Foo, DISABLED_CODE}

\* no call is in progress
BetweenCalls == \A p \in Procs : pc[p] = "idle"

NextCached ==
    \/ \E p \in Solo, n \in CachedNames : NewValidate(p, n)
    \/ \E p \in Solo :
          \/ NewLock(p)
          \/ NewCheck(p)
          \/ NewPanicUnlock(p)
          \/ NewInsert(p)
          \/ NewLookupPrimary(p)
          \/ NewLookupLegacy(p)
          \/ NewReturn(p)
    \/ \E p \in Solo :
          \/ CachedLock(p)
          \/ CachedCheck(p)
          \/ CachedAlloc(p)
          \/ CachedEnviron(p)
          \/ CachedLoop(p)
          \/ CachedReturn(p)
    \/ \E p \in Solo : ResetLock(p) \/ ResetClear(p)
    \/ \E k \in CachedKeys, v \in EnvValues : BetweenCalls /\ SetenvStep(k, v)
    \/ \E k \in CachedKeys : BetweenCalls /\ UnsetenvStep(k)

SpecCached == Init /\ [][NextCached]_vars

(***************************************************************************)
(* The cached version under concurrent callers of New, DisabledGates and   *)
(* resetDisabledGates, in a process started with some environment.  A      *)
(* caller inside a call goes on running (weak fairness of the steps made   *)
(* while holding gateLock), and a caller blocked in gateLock.Lock() gets   *)
(* the mutex in the end: sync.Mutex hands the mutex over to a waiter that  *)
(* has waited for more than 1ms (starvation mode), which is strong         *)
(* fairness of the Lock step.                                              *)
(***************************************************************************)
InitConcurrent == InitWith(EnvsOver(CachedKeys, {<<>>}))

\* the steps a caller makes while it holds gateLock
LockedSteps(p) ==
    \/ NewCheck(p)
    \/ NewPanicUnlock(p)
    \/ NewInsert(p)
    \/ NewLookupPrimary(p)
    \/ NewLookupLegacy(p)
    \/ NewReturn(p)
    \/ CachedCheck(p)
    \/ CachedAlloc(p)
    \/ CachedEnviron(p)
    \/ CachedLoop(p)
    \/ CachedReturn(p)
    \/ ResetClear(p)

NextConcurrent ==
    \/ \E p \in Procs, n \in CachedNames : NewValidate(p, n)
    \/ \E p \in Procs : NewLock(p)
    \/ \E p \in Procs : CachedLock(p)
    \/ \E p \in Procs : ResetLock(p)
    \/ \E p \in Procs : LockedSteps(p)

FairConcurrent ==
    \A p \in Procs : WF_vars(LockedSteps(p)) /\ SF_vars(NewLock(p))

SpecConcurrent == InitConcurrent /\ [][NextConcurrent]_vars /\ FairConcurrent

(***************************************************************************)
(* Vocabulary of the properties.                                           *)
(***************************************************************************)
\* the elements of a list
Elems(l) == {l[i] : i \in DOMAIN l}

\* how many of the returned gates carry the name n
GatesNamed(n) ==
    LET S == {g \in BagToSet(gates) : g.name = n}
    IN  IF S = {} THEN 0
        ELSE IF Cardinality(S) = 1 THEN CopiesIn(CHOOSE g \in S : TRUE, gates)
        ELSE Cardinality(S)

\* the callers that are between the membership check and the return of New
PastCheck(n) ==
    {p \in Procs : pc[p] \in {"new_insert", "new_lookup", "new_return"}
                   /\ name[p] = n}

\* the callers that hold gateLock inside New
InNewSection ==
    {p \in Procs : pc[p] \in {"new_check", "new_panic", "new_insert",
                              "new_lookup", "new_return"}}

\* the pattern ^[A-Za-z][A-Za-z0-9_]*$ with a length between 1 and 100
WellFormed(s) ==
    /\ Len(s) >= 1
    /\ Len(s) <= 100
    /\ s[1] \in UpperAZ \cup LowerAZ
    /\ \A i \in 1..Len(s) : s[i] \in UpperAZ \cup LowerAZ \cup Digit09 \cup {"_"}

(***************************************************************************)
(* C1. Concurrent New(n) calls with one name: at most one of them gets     *)
(* past the membership check and returns a Gate, so every other one takes  *)
(* the panic branch; the check and the insert are made by the one caller   *)
(* that holds gateLock.                                                    *)
(***************************************************************************)
C1_OneGatePerName ==
    /\ \A n \in {name[p] : p \in Procs} \cup {g.name : g \in BagToSet(gates)} :
           /\ Cardinality(PastCheck(n)) + GatesNamed(n) <= 1
           /\ GatesNamed(n) = 1 => n \in usedNames
    /\ Cardinality(InNewSection) <= 1
    /\ InNewSection # {} => gateLock

\* a call returns a Gate while another call with the same name waits for
\* gateLock
C1_Witness ==
    /\ ret.kind = "gate"
    /\ \E q \in Procs : /\ q # ret.proc
                        /\ pc[q] = "new_lock"
                        /\ name[q] = ret.gate.name

(***************************************************************************)
(* C2. Once New(n) has returned a Gate, the name stays in usedNames: no    *)
(* step (of New, DisabledGates, resetDisabledGates, Setenv, Unsetenv)      *)
(* removes a name, and every call that reaches the membership check with   *)
(* the name of a returned gate takes the panic branch and ends in a panic  *)
(* without producing a gate.                                               *)
(***************************************************************************)
C2_SecondNewFails ==
    [][/\ usedNames \subseteq usedNames'
       /\ \A p \in Procs :
            /\ (pc[p] = "new_check" /\ pc'[p] # "new_check" /\ GatesNamed(name[p]) > 0)
                  => pc'[p] = "new_panic"
            /\ (pc[p] = "new_panic" /\ pc'[p] # "new_panic")
                  => /\ ret' = RetPanic(p, name[p], "duplicate")
                     /\ gates' = gates]_vars

\* New(n) panics on a duplicate after another gate was made, the
\* environment changed and the list was cached since the first New(n)
C2_Witness ==
    /\ ret.kind = "panic"
    /\ ret.why = "duplicate"
    /\ GatesNamed(ret.name) = 1
    /\ \E g \in BagToSet(gates) : g.name # ret.name
    /\ env # <<>>
    /\ disabledGates # Nil

(***************************************************************************)
(* C4. A New call that panics registers nothing and produces no gate:      *)
(* usedNames changes only in the insert step of a call, which adds the     *)
(* call's own well-formed name; a call on the panic branch comes straight  *)
(* from the membership check, a call past the insert returns a Gate, and a *)
(* step that delivers a panic leaves usedNames and the gates as they were. *)
(***************************************************************************)
C4_FailedNewRegistersNothing ==
    [][/\ usedNames' # usedNames =>
            \E p \in Procs : /\ pc[p] = "new_insert"
                             /\ pc'[p] = "new_lookup"
                             /\ WellFormed(name[p])
                             /\ usedNames' = usedNames \cup {name[p]}
       /\ ret'.kind = "panic" => usedNames' = usedNames /\ gates' = gates
       /\ \A p \in Procs :
            /\ (pc'[p] = "new_panic" /\ pc[p] # "new_panic")
                  => pc[p] = "new_check" /\ name[p] \in usedNames
            /\ (pc[p] \in {"new_lookup", "new_return"} /\ pc'[p] = "idle")
                  => ret'.kind = "gate"]_vars

\* a New call has just panicked on an invalid name while a name is registered
C4_Witness ==
    /\ ret.kind = "panic"
    /\ ret.why = "invalid"
    /\ usedNames # {}
    /\ \A n \in usedNames : WellFormed(n)

(***************************************************************************)
(* C5. The gate New(n) returns is disabled exactly when the variable       *)
(* EnvVarPrefix + n is set when New looks it up, whatever its value, and   *)
(* whatever other variables are set.                                       *)
(***************************************************************************)
C5_EnabledIffVariableAbsent ==
    [][\A p \in Procs :
          /\ (pc[p] = "new_lookup" /\ pc'[p] # "new_lookup")
                => /\ pc'[p] = "new_return"
                   /\ disabled'[p] = ((EnvVarPrefix \o name[p]) \in DOMAIN env)
          /\ (pc[p] = "new_return" /\ pc'[p] # "new_return")
                => /\ ret' = RetGate(p, [name |-> name[p], enabled |-> ~disabled[p]])
                   /\ pc'[p] = "idle"
          /\ (pc[p] = "new_return" /\ pc'[p] = "new_return")
                => disabled'[p] = disabled[p] /\ name'[p] = name[p]]_vars

\* New returns a disabled gate whose variable holds the empty string
C5_Witness ==
    /\ ret.kind = "gate"
    /\ ~ret.gate.enabled
    /\ (EnvVarPrefix \o ret.gate.name) \in DOMAIN env
    /\ env[EnvVarPrefix \o ret.gate.name] = <<>>

(***************************************************************************)
(* C6. A gate, once returned, keeps its Enabled() and Name() results       *)
(* through every later step: changes of the environment, New calls,        *)
(* DisabledGates calls, resets of the cached list.                         *)
(***************************************************************************)
C6_GateImmutable ==
    [][\A g \in BagToSet(gates) :
          /\ CopiesIn(g, gates') >= CopiesIn(g, gates)
          /\ Enabled(g)' = Enabled(g)
          /\ Name(g)' = Name(g)]_vars

\* a gate that is still enabled after its disable variable has been set, a
\* reset made and the variable reported by DisabledGates
C6_Witness ==
    /\ ret.kind = "list"
    /\ \E g \in BagToSet(gates) :
          /\ Enabled(g)
          /\ (EnvVarPrefix \o Name(g)) \in DOMAIN env
          /\ Name(g) \in Elems(ret.list)

\* the string k starts with the string pre
StartsWith(k, pre) ==
    /\ Len(k) >= Len(pre)
    /\ \A i \in 1..Len(pre) : k[i] = pre[i]

\* what follows the first Len(pre) characters of k
After(k, pre) == [i \in 1..(Len(k) - Len(pre)) |-> k[i + Len(pre)]]

\* the variable's name starts with EnvVarPrefix
Prefixed(k) == StartsWith(k, EnvVarPrefix)

\* what follows the prefix in the variable's name
Suffix(k) == After(k, EnvVarPrefix)

(***************************************************************************)
(* C7. The list a scan returns holds one entry per variable whose name     *)
(* starts with EnvVarPrefix, the entry being the rest of the name, and no  *)
(* other entry: the entries, with the prefix put back, are the prefixed    *)
(* variables of the environment, each once; NOISE, and DISABLED_CODE,      *)
(* which shares only a part of the prefix, give no entry.                  *)
(***************************************************************************)
C7_ScanListsPrefixedVariables ==
    [][ret'.kind = "list" =>
          LET list == ret'.list
          IN  /\ \A i \in DOMAIN list :
                    (EnvVarPrefix \o list[i]) \in DOMAIN env
              /\ \A k \in DOMAIN env :
                    Cardinality({i \in DOMAIN list : EnvVarPrefix \o list[i] = k})
                        = IF Prefixed(k) THEN 1 ELSE 0]_vars

\* a scan of an environment that holds NOISE, DISABLED_CODE and the
\* variables of Baz1 and Baz3 lists Baz3 and Baz1 and nothing else
C7_Witness ==
    /\ ret.kind = "list"
    /\ DOMAIN env = {NOISE, DISABLED_CODE,
                     EnvVarPrefix \o Baz("1"), EnvVarPrefix \o Baz("3")}
    /\ ret.list = <<Baz("3"), Baz("1")>>

(***************************************************************************)
(* C9. DisabledGates of the live-scan version reads the environment of the *)
(* moment of the call and keeps nothing: the names it returns are those of *)
(* the prefixed variables set at that moment, whatever earlier calls       *)
(* returned, the call changes no state, and the gates made before keep     *)
(* their Enabled() value.                                                  *)
(***************************************************************************)
C9_LiveScan ==
    [][ret'.kind = "list" =>
          /\ Elems(ret'.list) = {Suffix(k) : k \in {x \in DOMAIN env' : Prefixed(x)}}
          /\ UNCHANGED <<env, usedNames, gateLock, disabledGates, pc, name,
                         disabled, environ, gates, lastQuery>>
          /\ \A g \in BagToSet(gates) : Enabled(g)' = Enabled(g)]_vars

\* a call lists a gate that was made enabled before its variable was set,
\* and omits a gate that was made disabled before its variable was removed
C9_Witness ==
    /\ ret.kind = "list"
    /\ \E g \in BagToSet(gates) : Enabled(g) /\ Name(g) \in Elems(ret.list)
    /\ \E g \in BagToSet(gates) : ~Enabled(g) /\ Name(g) \notin Elems(ret.list)

(***************************************************************************)
(* C3. New accepts a name that is not registered yet exactly when the name *)
(* is well formed: the validity check panics on every other string and on  *)
(* no well-formed one, the membership check lets an unregistered name      *)
(* through, the lock is free for the caller, and the call then returns a   *)
(* Gate of that name.                                                      *)
(***************************************************************************)
C3_NewSucceedsIffWellFormed ==
    [][\A p \in Procs :
          /\ (ret'.kind = "panic" /\ ret'.why = "invalid")
                => ~WellFormed(ret'.name)
          /\ (pc[p] = "idle" /\ pc'[p] # "idle")
                => /\ WellFormed(name'[p])
                   /\ pc'[p] = "new_lock"
                   /\ ~gateLock'
          /\ (pc[p] = "new_check" /\ pc'[p] # "new_check")
                => pc'[p] = IF name[p] \in usedNames THEN "new_panic"
                                                     ELSE "new_insert"
          /\ (pc[p] \in {"new_insert", "new_lookup", "new_return"} /\ pc'[p] = "idle")
                => ret'.kind = "gate" /\ ret'.gate.name = name[p]
          /\ ret'.kind = "gate" => WellFormed(ret'.gate.name)]_vars

\* New has returned a gate for the name of 100 characters
C3_Witness ==
    /\ ret.kind = "gate"
    /\ Len(ret.gate.name) = 100

DisabledBy(e) ==
    {After(k, EnvVarPrefix) : k \in {x \in DOMAIN e : StartsWith(x, EnvVarPrefix)}}
    \cup
    {After(k, envVarPrefix2) : k \in {x \in DOMAIN e : StartsWith(x, envVarPrefix2)}}

Count(l, n) == Cardinality({i \in DOMAIN l : l[i] = n})

(***************************************************************************)
(* C11. Cached version, one caller.  New looks up the variable of the      *)
(* deprecated prefix only when the variable of the primary prefix is       *)
(* absent, and the gate it returns is disabled exactly when at least one   *)
(* of the two variables is set during the call.  A DisabledGates call that *)
(* fills the list gives one entry per variable whose name starts with      *)
(* either prefix, the entry being the rest of the name, and nothing else.  *)
(***************************************************************************)
C11_LegacyPrefix ==
    [][/\ \A p \in Procs :
            /\ (pc[p] = "new_lookup" /\ pc'[p] # "new_lookup")
                  => pc'[p] = IF (EnvVarPrefix \o name[p]) \in DOMAIN env
                              THEN "new_return" ELSE "new_lookup2"
            /\ (pc[p] = "new_return" /\ pc'[p] # "new_return")
                  => /\ ret'.kind = "gate"
                     /\ Name(ret'.gate) = name[p]
                     /\ Enabled(ret'.gate) =
                            ~(\/ (EnvVarPrefix \o name[p]) \in DOMAIN env
                              \/ (envVarPrefix2 \o name[p]) \in DOMAIN env)
       /\ (ret'.kind = "list" /\ lastQuery = Nil)
             => \A n \in DisabledBy(env) \cup Elems(ret'.list) :
                    Count(ret'.list, n) =
                        Cardinality({k \in DOMAIN env :
                                        k \in {EnvVarPrefix \o n, envVarPrefix2 \o n}})]_vars

\* New returns a disabled gate whose variable is set under the deprecated
\* prefix only
C11_Witness ==
    /\ ret.kind = "gate"
    /\ ~Enabled(ret.gate)
    /\ (EnvVarPrefix \o Name(ret.gate)) \notin DOMAIN env
    /\ (envVarPrefix2 \o Name(ret.gate)) \in DOMAIN env

\* the callers that hold gateLock, in New, DisabledGates or resetDisabledGates
LockHolders ==
    {p \in Procs : pc[p] \notin {"idle", "new_lock"}}

(***************************************************************************)
(* C12. Cached version, concurrent callers.  Every list a DisabledGates    *)
(* call returns is the result of a whole scan of the environment: one      *)
(* entry per variable under either prefix, never a part of them.  The list *)
(* is tested, filled and cleared only by the one caller that holds         *)
(* gateLock.                                                               *)
(***************************************************************************)
C12_WholeScan ==
    [][/\ ret'.kind = "list"
             => \A n \in DisabledBy(env) \cup Elems(ret'.list) :
                    Count(ret'.list, n) =
                        Cardinality({k \in DOMAIN env :
                                        k \in {EnvVarPrefix \o n, envVarPrefix2 \o n}})
       /\ Cardinality(LockHolders) <= 1
       /\ disabledGates' # disabledGates
             => \E p \in LockHolders :
                    pc[p] \in {"dg_alloc", "dg_loop", "reset_clear"}]_vars

\* a DisabledGates call returns the two entries of its scan while another
\* caller is blocked in gateLock.Lock() of New
C12_Witness ==
    /\ ret.kind = "list"
    /\ Len(ret.list) = 2
    /\ \E q \in Procs : q # ret.proc /\ pc[q] = "new_lock"

\* the positions of a caller inside New
NewPositions ==
    {"new_lock", "new_check", "new_panic", "new_insert", "new_lookup",
     "new_lookup2", "new_return"}

(***************************************************************************)
(* C13. Cached version, one caller.  No step of a New call, whether the    *)
(* call ends in a Gate or in a panic, changes the cached list or the       *)
(* environment.  The list a DisabledGates call returns is the list of the  *)
(* earlier call when there was one since the latest reset, whatever New    *)
(* calls were made in between, and otherwise holds the names of the        *)
(* variables set under either prefix, registered or not.                   *)
(***************************************************************************)
C13_IndependentOfRegistry ==
    [][/\ (\/ \E p \in Procs : /\ pc'[p] # pc[p]
                               /\ pc[p] \in NewPositions \/ pc'[p] \in NewPositions
           \/ ret'.kind \in {"gate", "panic"}
           \/ usedNames' # usedNames
           \/ gates' # gates)
             => disabledGates' = disabledGates /\ env' = env
       /\ ret'.kind = "list"
             => IF lastQuery # Nil
                THEN ret'.list = lastQuery.list
                ELSE Elems(ret'.list) = DisabledBy(env)]_vars

\* DisabledGates lists Foo, which was never passed to New, and not Bar, for
\* which a gate was made
C13_Witness ==
    /\ ret.kind = "list"
    /\ Foo \in Elems(ret.list)
    /\ Bar \notin Elems(ret.list)
    /\ usedNames = {Bar}
    /\ GatesNamed(Bar) = 1

(***************************************************************************)
(* C14. Cached version, concurrent callers.  gateLock is held only by a    *)
(* caller that is inside New, DisabledGates or resetDisabledGates and can  *)
(* make its next step; the step that delivers the panic of a duplicate     *)
(* name leaves the mutex unlocked; a locked mutex is unlocked later on,    *)
(* so that a DisabledGates or resetDisabledGates call can take it; and     *)
(* every call that has started, a New blocked in gateLock.Lock() included, *)
(* completes.                                                              *)
(***************************************************************************)
C14_LockNeverLeftHeld ==
    /\ [](gateLock => \E p \in LockHolders : ENABLED LockedSteps(p))
    /\ [][(ret'.kind = "panic" /\ ret'.why = "duplicate") => ~gateLock']_vars
    /\ gateLock ~> ~gateLock
    /\ \A p \in Procs : (pc[p] # "idle") ~> (pc[p] = "idle")

\* a New call has panicked on a duplicate name, the mutex is unlocked, and
\* another caller is blocked in gateLock.Lock()
C14_Witness ==
    /\ ret.kind = "panic"
    /\ ret.why = "duplicate"
    /\ ~gateLock
    /\ \E q \in Procs : q # ret.proc /\ pc[q] = "new_lock"

\* the names of the gates New has returned
ReturnedNames == {Name(g) : g \in BagToSet(gates)}

\* the names of the New calls that have made their insert and not yet
\* returned their Gate
InsertedNames ==
    {name[p] : p \in {q \in Procs :
                         pc[q] \in {"new_lookup", "new_lookup2", "new_return"}}}

\* usedNames in a state: the returned names and the inserted ones, the
\* returned names alone when gateLock is free, well-formed names only
UsedNamesExact ==
    /\ usedNames = ReturnedNames \cup InsertedNames
    /\ ~gateLock => usedNames = ReturnedNames
    /\ \A n \in usedNames : WellFormed(n)

====
